---- MODULE Spec2Model ----
(***************************************************************************)
(* Model of src/components/1_chapter_automata.py: the WeatherAutomaton and *)
(* the DFA recognising strings that end with "ab".                         *)
(*                                                                         *)
(* One instance of one of the two classes is constructed and then driven  *)
(* by an arbitrary sequence of method calls.  The instance is a record     *)
(* holding the fields that __init__ assigns; every method call is one     *)
(* action.  A Python str is modelled as a sequence of one-character       *)
(* strings.                                                                *)
(***************************************************************************)
EXTENDS Integers, Sequences, FiniteSets, TLC

\* ---------------------------------------------------------------- bounds
\* longest input_string over the alphabet handed to DFA.process_string
MaxLen == 6
\* longest input_string with out-of-alphabet characters handed to it
MaxBadLen == 5
\* longest recorded run of WeatherAutomaton.transition calls
MaxHist == 4
\* longest list handed to WeatherAutomaton.predict_rain
MaxInputs == 3

RECURSIVE SeqsUpTo(_, _)
\* all sequences over S of length at most n
SeqsUpTo(S, n) ==
  IF n = 0 THEN {<<>>}
  ELSE LET shorter == SeqsUpTo(S, n - 1)
       IN  shorter \cup {Append(s, x) : s \in {t \in shorter : Len(t) = n - 1}, x \in S}

Range(s) == {s[k] : k \in 1..Len(s)}

\* ------------------------------------------------------ WeatherState enum
SUNNY == "Sunny"
CLOUDY == "Cloudy"
RAINY == "Rainy"
WeatherState == {SUNNY, CLOUDY, RAINY}

\* ------------------------------------------------------ WeatherInput enum
HIGH_PRESSURE == "high pressure"
LOW_PRESSURE == "low pressure"
HUMIDITY == "humidity"
WeatherInput == {HIGH_PRESSURE, LOW_PRESSURE, HUMIDITY}

\* the lists a caller passes to WeatherAutomaton.predict_rain
InputLists == SeqsUpTo(WeatherInput, MaxInputs)

\* ------------------------------------------------------- WeatherAutomaton
\* the table with Rainy left straight to Sunny on high pressure
WeatherTransitions_rainy_sunny ==
  (<<SUNNY, LOW_PRESSURE>> :> CLOUDY) @@
  (<<CLOUDY, HUMIDITY>> :> RAINY) @@
  (<<RAINY, HIGH_PRESSURE>> :> SUNNY) @@
  (<<CLOUDY, HIGH_PRESSURE>> :> SUNNY)

\* the table with an extra entry that enters Rainy from Sunny on humidity
WeatherTransitions_sunny_rainy ==
  (<<SUNNY, LOW_PRESSURE>> :> CLOUDY) @@
  (<<SUNNY, HUMIDITY>> :> RAINY) @@
  (<<CLOUDY, HUMIDITY>> :> RAINY) @@
  (<<RAINY, HIGH_PRESSURE>> :> CLOUDY) @@
  (<<CLOUDY, HIGH_PRESSURE>> :> SUNNY)

\* the table without the entry that returns to Sunny
WeatherTransitions_no_sunny ==
  (<<SUNNY, LOW_PRESSURE>> :> CLOUDY) @@
  (<<CLOUDY, HUMIDITY>> :> RAINY) @@
  (<<RAINY, HIGH_PRESSURE>> :> CLOUDY)

\* the table without the entry that leaves Rainy
WeatherTransitions_rainy_stuck ==
  (<<SUNNY, LOW_PRESSURE>> :> CLOUDY) @@
  (<<CLOUDY, HUMIDITY>> :> RAINY) @@
  (<<CLOUDY, HIGH_PRESSURE>> :> SUNNY)

\* the table with an extra entry that enters Rainy from Sunny on high
\* pressure
WeatherTransitions_sunny_high ==
  (<<SUNNY, LOW_PRESSURE>> :> CLOUDY) @@
  (<<SUNNY, HIGH_PRESSURE>> :> RAINY) @@
  (<<CLOUDY, HUMIDITY>> :> RAINY) @@
  (<<RAINY, HIGH_PRESSURE>> :> CLOUDY) @@
  (<<CLOUDY, HIGH_PRESSURE>> :> SUNNY)

\* self.transitions of WeatherAutomaton.__init__
WeatherTransitions ==
  (<<SUNNY, LOW_PRESSURE>> :> CLOUDY) @@
  (<<CLOUDY, HUMIDITY>> :> RAINY) @@
  (<<RAINY, HIGH_PRESSURE>> :> CLOUDY) @@
  (<<CLOUDY, HIGH_PRESSURE>> :> SUNNY)

\* the instance WeatherAutomaton() returns
WeatherAutomaton_init ==
  [cls |-> "WeatherAutomaton",
   states |-> WeatherState,
   inputs |-> WeatherInput,
   current_state |-> SUNNY,
   transitions |-> WeatherTransitions]

\* transition that looks the pair up with its components swapped
WeatherAutomaton_transition_swapped(self, input_symbol) ==
  IF <<input_symbol, self.current_state>> \in DOMAIN self.transitions
  THEN [self EXCEPT !.current_state = self.transitions[<<input_symbol, self.current_state>>]]
  ELSE self

\* WeatherAutomaton.transition: the instance after the call (the value
\* returned is its current_state)
WeatherAutomaton_transition(self, input_symbol) ==
  IF <<self.current_state, input_symbol>> \in DOMAIN self.transitions
  THEN [self EXCEPT !.current_state = self.transitions[<<self.current_state, input_symbol>>]]
  ELSE self

\* predict_rain with "or" in place of "and"
predict_rain_or(self, inputs) ==
  HUMIDITY \in Range(inputs) \/ LOW_PRESSURE \in Range(inputs)

\* predict_rain coupled to the cursor
predict_rain_cursor(self, inputs) ==
  \/ self.current_state = RAINY
  \/ HUMIDITY \in Range(inputs) /\ LOW_PRESSURE \in Range(inputs)

\* WeatherAutomaton.predict_rain: the value returned
predict_rain(self, inputs) ==
  HUMIDITY \in Range(inputs) /\ LOW_PRESSURE \in Range(inputs)

\* -------------------------------------------------------------------- DFA
\* characters a caller may pass; "x" stands for any character outside
\* the alphabet
Chars == {"a", "b", "x"}

\* the strings a caller passes to DFA.process_string
InputStrings == SeqsUpTo({"a", "b"}, MaxLen) \cup SeqsUpTo(Chars, MaxBadLen)

\* the table with the entry for ('q2', 'a') sent back to the start state
DFATransitions_q2a ==
  (<<"q0", "a">> :> "q1") @@
  (<<"q0", "b">> :> "q0") @@
  (<<"q1", "a">> :> "q1") @@
  (<<"q1", "b">> :> "q2") @@
  (<<"q2", "a">> :> "q0") @@
  (<<"q2", "b">> :> "q0")

\* the table without the entry for ('q2', 'b')
DFATransitions_no_q2b ==
  (<<"q0", "a">> :> "q1") @@
  (<<"q0", "b">> :> "q0") @@
  (<<"q1", "a">> :> "q1") @@
  (<<"q1", "b">> :> "q2") @@
  (<<"q2", "a">> :> "q1")

\* the table with the entry for ('q1', 'a') sent back to the start state
DFATransitions_q1a ==
  (<<"q0", "a">> :> "q1") @@
  (<<"q0", "b">> :> "q0") @@
  (<<"q1", "a">> :> "q0") @@
  (<<"q1", "b">> :> "q2") @@
  (<<"q2", "a">> :> "q1") @@
  (<<"q2", "b">> :> "q0")

\* self.transitions of DFA.__init__
DFATransitions ==
  (<<"q0", "a">> :> "q1") @@
  (<<"q0", "b">> :> "q0") @@
  (<<"q1", "a">> :> "q1") @@
  (<<"q1", "b">> :> "q2") @@
  (<<"q2", "a">> :> "q1") @@
  (<<"q2", "b">> :> "q0")

\* the instance DFA() returns
DFA_init ==
  [cls |-> "DFA",
   states |-> {"q0", "q1", "q2"},
   alphabet |-> {"a", "b"},
   start_state |-> "q0",
   final_states |-> {"q2"},
   current_state |-> "q0",
   transitions |-> DFATransitions]

\* transition that falls back to the start state on a missing key
DFA_transition_restart(self, symbol) ==
  IF <<self.current_state, symbol>> \in DOMAIN self.transitions
  THEN [self EXCEPT !.current_state = self.transitions[<<self.current_state, symbol>>]]
  ELSE [self EXCEPT !.current_state = self.start_state]

\* transition that stores the symbol on a missing key
DFA_transition_symbol(self, symbol) ==
  IF <<self.current_state, symbol>> \in DOMAIN self.transitions
  THEN [self EXCEPT !.current_state = self.transitions[<<self.current_state, symbol>>]]
  ELSE [self EXCEPT !.current_state = symbol]

\* DFA.transition: the instance after the call (the value returned is its
\* current_state)
DFA_transition(self, symbol) ==
  IF <<self.current_state, symbol>> \in DOMAIN self.transitions
  THEN [self EXCEPT !.current_state = self.transitions[<<self.current_state, symbol>>]]
  ELSE self

RECURSIVE process_loop(_, _, _, _)
\* the for loop of DFA.process_string from index k on, and the return after
\* it; applied counts the calls of self.transition made so far
process_loop(self, input_string, k, applied) ==
  IF k > Len(input_string)
  THEN [self |-> self, ret |-> self.current_state \in self.final_states, applied |-> applied]
  ELSE IF input_string[k] \notin self.alphabet
       THEN [self |-> self, ret |-> FALSE, applied |-> applied]
       ELSE process_loop(DFA_transition(self, input_string[k]), input_string, k + 1, applied + 1)

\* process_string that skips an out-of-alphabet character instead of
\* returning False
process_string_skip(self, input_string) ==
  process_loop([self EXCEPT !.current_state = self.start_state],
               SelectSeq(input_string, LAMBDA c : c \in self.alphabet), 1, 0)

\* process_string without the reset of line 95
process_string_noreset(self, input_string) ==
  process_loop(self, input_string, 1, 0)

\* process_string with the assignment of line 95 turned round
process_string_assign_reversed(self, input_string) ==
  process_loop([self EXCEPT !.start_state = self.current_state], input_string, 1, 0)

\* process_string that consumes the characters from right to left
process_string_reversed(self, input_string) ==
  process_loop([self EXCEPT !.current_state = self.start_state],
               [k \in 1..Len(input_string) |-> input_string[Len(input_string) + 1 - k]], 1, 0)

\* process_string that notes an out-of-alphabet character, consumes the
\* rest of the string and returns False at the end
process_string_consume(self, input_string) ==
  LET r == process_loop([self EXCEPT !.current_state = self.start_state],
                        SelectSeq(input_string, LAMBDA c : c \in self.alphabet), 1, 0)
  IN  IF \A k \in 1..Len(input_string) : input_string[k] \in self.alphabet
      THEN r
      ELSE [r EXCEPT !.ret = FALSE]

\* DFA.process_string: the instance after the call, the value returned and
\* the number of transitions applied
process_string(self, input_string) ==
  process_loop([self EXCEPT !.current_state = self.start_state], input_string, 1, 0)

RECURSIVE DFARun(_, _)
\* the instance after DFA.transition was called with each character of
\* symbols in turn
DFARun(self, symbols) ==
  IF symbols = <<>> THEN self
  ELSE DFARun(DFA_transition(self, Head(symbols)), Tail(symbols))

RECURSIVE WeatherRun(_, _)
\* the instance after WeatherAutomaton.transition was called with each
\* element of inputs in turn
WeatherRun(self, inputs) ==
  IF inputs = <<>> THEN self
  ELSE WeatherRun(WeatherAutomaton_transition(self, Head(inputs)), Tail(inputs))

\* the runs of transition calls the model records
InputRuns == SeqsUpTo(WeatherInput, MaxHist)

\* self.transition(symbol) of the class self belongs to
transition(self, symbol) ==
  IF self.cls = "DFA" THEN DFA_transition(self, symbol)
  ELSE WeatherAutomaton_transition(self, symbol)

\* the symbols a caller passes to self.transition
Symbols(self) == IF self.cls = "DFA" THEN Chars ELSE WeatherInput

\* ------------------------------------------------------------------ state
VARIABLES
  automaton,  \* the instance: the fields __init__ assigned
  call,       \* the last method call: op, arg, ret, and pre, the cursor before it
  hist        \* the arguments of the WeatherAutomaton.transition calls so far

vars == <<automaton, call, hist>>

NoCall == [op |-> "__init__", arg |-> <<>>, ret |-> "None", pre |-> "None", applied |-> 0]

Init ==
  /\ automaton \in {WeatherAutomaton_init, DFA_init}
  /\ call = NoCall
  /\ hist = <<>>

\* a call of WeatherAutomaton.transition
WeatherTransition ==
  /\ automaton.cls = "WeatherAutomaton"
  /\ Len(hist) < MaxHist
  /\ \E input_symbol \in WeatherInput :
       LET after == WeatherAutomaton_transition(automaton, input_symbol)
       IN  /\ automaton' = after
           /\ call' = [op |-> "transition", arg |-> input_symbol,
                       ret |-> after.current_state,
                       pre |-> automaton.current_state, applied |-> 0]
           /\ hist' = Append(hist, input_symbol)

\* a call of WeatherAutomaton.predict_rain
PredictRain ==
  /\ automaton.cls = "WeatherAutomaton"
  /\ \E inputs \in InputLists :
       call' = [op |-> "predict_rain", arg |-> inputs,
                ret |-> predict_rain(automaton, inputs),
                pre |-> automaton.current_state, applied |-> 0]
  /\ UNCHANGED <<automaton, hist>>

\* a call of DFA.transition
DFATransition ==
  /\ automaton.cls = "DFA"
  /\ \E symbol \in Chars :
       LET after == DFA_transition(automaton, symbol)
       IN  /\ automaton' = after
           /\ call' = [op |-> "transition", arg |-> symbol,
                       ret |-> after.current_state,
                       pre |-> automaton.current_state, applied |-> 0]
  /\ UNCHANGED hist

\* a call of DFA.process_string
ProcessString ==
  /\ automaton.cls = "DFA"
  /\ \E input_string \in InputStrings :
       LET r == process_string(automaton, input_string)
       IN  /\ automaton' = r.self
           /\ call' = [op |-> "process_string", arg |-> input_string,
                       ret |-> r.ret,
                       pre |-> automaton.current_state, applied |-> r.applied]
  /\ UNCHANGED hist

Next ==
  \/ WeatherTransition
  \/ PredictRain
  \/ DFATransition
  \/ ProcessString

Spec == Init /\ [][Next]_vars

\* ----------------------------------------------------------- properties
OverAlphabet(s) == \A k \in 1..Len(s) : s[k] \in {"a", "b"}

EndsWithAB(s) == Len(s) >= 2 /\ s[Len(s) - 1] = "a" /\ s[Len(s)] = "b"

\* C1: for every string over {a,b}, process_string returns True iff the
\* string has at least two characters and its last two are 'a' then 'b';
\* the empty string and the one-character strings are rejected.
C1_AcceptsExactlyEndsWithAB ==
  (call.op = "process_string" /\ OverAlphabet(call.arg)) =>
    /\ call.ret = EndsWithAB(call.arg)
    /\ (Len(call.arg) < 2 => call.ret = FALSE)

C1_Witness ==
  /\ call.op = "process_string"
  /\ call.arg = <<"a", "b", "a", "a", "a", "b">>
  /\ call.ret = TRUE

\* C2: a string with at least one character outside {a,b} makes
\* process_string return the ordinary value False, whatever precedes or
\* follows the invalid character, also when the string ends with "ab".
C2_RejectsOutOfAlphabet ==
  (call.op = "process_string" /\ ~OverAlphabet(call.arg)) =>
    /\ call.ret \in BOOLEAN
    /\ call.ret = FALSE

C2_Witness ==
  /\ call.op = "process_string"
  /\ call.arg = <<"a", "b", "x", "a", "b">>
  /\ call.ret = FALSE

\* C3: the value process_string returns depends on the string only: after
\* any earlier calls, with the cursor anywhere, it is the value a freshly
\* constructed DFA returns for the same string.
C3_ResultDependsOnStringOnly ==
  call.op = "process_string" =>
    call.ret = process_string(DFA_init, call.arg).ret

C3_Witness ==
  /\ call.op = "process_string"
  /\ call.pre = "q1"
  /\ call.arg = <<"b">>
  /\ call.ret = FALSE

\* C4: in both automata a transition call whose (state, symbol) pair is
\* not a key of the table leaves the cursor where it was and returns it,
\* however often it is repeated.
C4_UndefinedTransitionIsNoOp ==
  (call.op = "transition" /\ <<call.pre, call.arg>> \notin DOMAIN automaton.transitions) =>
    /\ automaton.current_state = call.pre
    /\ call.ret = call.pre

C4_Witness ==
  /\ automaton.cls = "WeatherAutomaton"
  /\ call.op = "transition"
  /\ hist = <<LOW_PRESSURE, LOW_PRESSURE, LOW_PRESSURE>>
  /\ automaton.current_state = CLOUDY
  /\ call.pre = CLOUDY

\* C5: in every reachable state the cursor is a member of the declared
\* state set: {Sunny, Cloudy, Rainy} for WeatherAutomaton, {q0, q1, q2}
\* for DFA.
C5_CursorInStates ==
  /\ automaton.current_state \in automaton.states
  /\ automaton.cls = "WeatherAutomaton" => automaton.current_state \in {"Sunny", "Cloudy", "Rainy"}
  /\ automaton.cls = "DFA" => automaton.current_state \in {"q0", "q1", "q2"}

C5_Witness ==
  /\ automaton.cls = "DFA"
  /\ call.op = "transition"
  /\ call.arg = "x"
  /\ call.pre = "q2"
  /\ automaton.current_state = "q2"

\* C6: a fresh WeatherAutomaton is at Sunny; after transition(LowPressure)
\* and transition(Humidity) it is at Rainy; after a further
\* transition(HighPressure) it is at Cloudy.
C6_WeatherScenario ==
  automaton.cls = "WeatherAutomaton" =>
    /\ hist = <<>> => automaton.current_state = SUNNY
    /\ hist = <<LOW_PRESSURE, HUMIDITY>> => automaton.current_state = RAINY
    /\ hist = <<LOW_PRESSURE, HUMIDITY, HIGH_PRESSURE>> => automaton.current_state = CLOUDY

C6_Witness ==
  /\ automaton.cls = "WeatherAutomaton"
  /\ hist = <<LOW_PRESSURE, HUMIDITY, HIGH_PRESSURE>>
  /\ call.op = "transition"
  /\ call.pre = RAINY
  /\ automaton.current_state = CLOUDY

\* C7: predict_rain returns True iff its list holds at least one Humidity
\* and at least one LowPressure element, in any order and repetition.
C7_PredictRainIffBoth ==
  call.op = "predict_rain" =>
    (call.ret <=> /\ \E k \in 1..Len(call.arg) : call.arg[k] = HUMIDITY
                  /\ \E k \in 1..Len(call.arg) : call.arg[k] = LOW_PRESSURE)

C7_Witness ==
  /\ call.op = "predict_rain"
  /\ call.arg = <<HUMIDITY, HIGH_PRESSURE, LOW_PRESSURE>>
  /\ call.ret = TRUE

\* C8: predict_rain does not depend on the automaton: its result is the
\* same whichever state the cursor holds and whatever transitions came
\* before, and the call leaves the cursor unchanged.
C8_PredictRainIndependent ==
  call.op = "predict_rain" =>
    /\ \A s \in WeatherState :
         call.ret = predict_rain([automaton EXCEPT !.current_state = s], call.arg)
    /\ call.ret = predict_rain(WeatherAutomaton_init, call.arg)
    /\ automaton.current_state = call.pre

C8_Witness ==
  /\ call.op = "predict_rain"
  /\ automaton.current_state = RAINY
  /\ Len(hist) >= 2
  /\ call.arg = <<HIGH_PRESSURE>>
  /\ call.ret = FALSE

\* C9 as stated: some run of inputs drives a fresh WeatherAutomaton to
\* Rainy while predict_rain of that run is False.
C9_RainyWithoutPrediction ==
  (automaton.cls = "WeatherAutomaton" /\ call.op = "__init__") =>
    \E inputs \in InputRuns :
      /\ WeatherRun(automaton, inputs).current_state = RAINY
      /\ ~predict_rain(automaton, inputs)

\* C9 (amended): every run of inputs that drives a fresh WeatherAutomaton
\* to Rainy holds both Humidity and LowPressure, so predict_rain of that
\* run is True.
C9_RainyImpliesPrediction ==
  (automaton.cls = "WeatherAutomaton" /\ automaton.current_state = RAINY) =>
    predict_rain(automaton, hist)

C9_Witness ==
  /\ automaton.cls = "WeatherAutomaton"
  /\ automaton.current_state = RAINY
  /\ Len(hist) >= 3
  /\ predict_rain(automaton, hist)

\* C10: for each of Sunny, Cloudy and Rainy some run of inputs drives a
\* fresh WeatherAutomaton to that state while predict_rain of that run is
\* True.
C10_PredictionTrueInEveryState ==
  (automaton.cls = "WeatherAutomaton" /\ call.op = "__init__") =>
    \A s \in WeatherState :
      \E inputs \in InputRuns :
        /\ WeatherRun(automaton, inputs).current_state = s
        /\ predict_rain(automaton, inputs)

C10_Witness ==
  /\ automaton.cls = "WeatherAutomaton"
  /\ automaton.current_state = SUNNY
  /\ predict_rain(automaton, hist)

\* the characters of s before its first character outside {a,b}
ValidPrefix(s) ==
  LET bad == {k \in 1..Len(s) : s[k] \notin {"a", "b"}}
  IN  IF bad = {} THEN s
      ELSE SubSeq(s, 1, (CHOOSE k \in bad : \A j \in bad : k <= j) - 1)

\* C11: when process_string meets its first out-of-alphabet character it
\* stops: no transition is applied for that character or a later one, so
\* the cursor on return is the state the characters before it lead to from
\* q0, which may be q2 although False was returned.
C11_StopsAtFirstInvalid ==
  (call.op = "process_string" /\ ~OverAlphabet(call.arg)) =>
    /\ automaton.current_state =
         DFARun([automaton EXCEPT !.current_state = "q0"], ValidPrefix(call.arg)).current_state
    /\ call.applied = Len(ValidPrefix(call.arg))
    /\ call.ret = FALSE

C11_Witness ==
  /\ call.op = "process_string"
  /\ call.arg = <<"a", "b", "x", "a">>
  /\ automaton.current_state = "q2"
  /\ call.ret = FALSE

\* C12: in both automata a transition call whose (state, symbol) pair is a
\* key of the table sets the cursor to the table's value for it and
\* returns that value; in every case the value returned is the cursor
\* after the call.
C12_DefinedTransitionFollowsTable ==
  call.op = "transition" =>
    /\ call.ret = automaton.current_state
    /\ <<call.pre, call.arg>> \in DOMAIN automaton.transitions =>
         /\ automaton.current_state = automaton.transitions[<<call.pre, call.arg>>]
         /\ call.ret = automaton.transitions[<<call.pre, call.arg>>]

C12_Witness ==
  /\ automaton.cls = "WeatherAutomaton"
  /\ call.op = "transition"
  /\ call.pre = CLOUDY
  /\ call.arg = HUMIDITY
  /\ call.ret = RAINY
  /\ automaton.current_state = RAINY

\* C13: for a string over {a,b} process_string returns True exactly when
\* the cursor on return is in the accepting set {q2}, and that cursor is
\* the state reached by applying transition to each character from left
\* to right, starting at q0.
C13_ResultIsAcceptanceOfRun ==
  (call.op = "process_string" /\ OverAlphabet(call.arg)) =>
    /\ call.ret <=> automaton.current_state \in {"q2"}
    /\ call.ret <=> automaton.current_state \in automaton.final_states
    /\ automaton.current_state =
         DFARun([automaton EXCEPT !.current_state = "q0"], call.arg).current_state

C13_Witness ==
  /\ call.op = "process_string"
  /\ call.pre = "q1"
  /\ call.arg = <<"b", "a", "a", "b">>
  /\ call.ret = TRUE
  /\ automaton.current_state = "q2"

\* C14: after construction no call changes anything but the cursor: the
\* state set, the alphabet or input set, the transition table, the start
\* state and the accepting set keep their constructed values.
C14_OnlyCursorChanges ==
  /\ automaton.cls = "WeatherAutomaton" =>
       /\ [automaton EXCEPT !.current_state = SUNNY] = WeatherAutomaton_init
       /\ automaton.states = {"Sunny", "Cloudy", "Rainy"}
       /\ automaton.inputs = {"high pressure", "low pressure", "humidity"}
       /\ DOMAIN automaton.transitions =
            {<<SUNNY, LOW_PRESSURE>>, <<CLOUDY, HUMIDITY>>,
             <<RAINY, HIGH_PRESSURE>>, <<CLOUDY, HIGH_PRESSURE>>}
  /\ automaton.cls = "DFA" =>
       /\ [automaton EXCEPT !.current_state = "q0"] = DFA_init
       /\ automaton.states = {"q0", "q1", "q2"}
       /\ automaton.alphabet = {"a", "b"}
       /\ automaton.start_state = "q0"
       /\ automaton.final_states = {"q2"}
       /\ DOMAIN automaton.transitions = {"q0", "q1", "q2"} \X {"a", "b"}

C14_Witness ==
  /\ automaton.cls = "DFA"
  /\ call.op = "process_string"
  /\ call.pre = "q2"
  /\ call.arg = <<"b", "a", "x">>
  /\ automaton.current_state = "q1"

\* C15: process_string returns after at most Len(input_string)
\* transitions: exactly that many when every character is in the
\* alphabet, exactly the number of characters before the first
\* out-of-alphabet character otherwise.
C15_TransitionsBoundedByLength ==
  call.op = "process_string" =>
    /\ call.ret \in BOOLEAN
    /\ call.applied <= Len(call.arg)
    /\ OverAlphabet(call.arg) => call.applied = Len(call.arg)
    /\ ~OverAlphabet(call.arg) =>
         /\ call.applied < Len(call.arg)
         /\ call.arg[call.applied + 1] \notin {"a", "b"}
         /\ \A k \in 1..call.applied : call.arg[k] \in {"a", "b"}

C15_Witness ==
  /\ call.op = "process_string"
  /\ call.arg = <<"a", "a", "x", "b", "x">>
  /\ call.applied = 2
  /\ call.ret = FALSE

\* the states one transition call leads to from a state in S
Successors(self, S) ==
  {transition([self EXCEPT !.current_state = s], i).current_state :
     s \in S, i \in Symbols(self)}

RECURSIVE ReachableFrom(_, _)
\* the states in S and those some run of transition calls leads to from them
ReachableFrom(self, S) ==
  LET T == S \cup Successors(self, S)
  IN  IF T = S THEN S ELSE ReachableFrom(self, T)

\* C16: neither automaton has an absorbing state: from every state some
\* input symbol moves the cursor to a different state, and every state is
\* reachable again from every other state.
C16_NoAbsorbingState ==
  /\ \E i \in Symbols(automaton) :
       transition(automaton, i).current_state # automaton.current_state
  /\ \A s \in automaton.states :
       /\ \E i \in Symbols(automaton) :
            transition([automaton EXCEPT !.current_state = s], i).current_state # s
       /\ \A t \in automaton.states \ {s} :
            t \in ReachableFrom(automaton, Successors(automaton, {s}))
       /\ s \in ReachableFrom(automaton, Successors(automaton, {s}))

C16_Witness ==
  /\ automaton.cls = "WeatherAutomaton"
  /\ hist = <<LOW_PRESSURE, HUMIDITY, HIGH_PRESSURE, HIGH_PRESSURE>>
  /\ call.pre = CLOUDY
  /\ automaton.current_state = SUNNY

\* C17: the DFA table is total: every pair of a declared state and an
\* alphabet character is a key, so every character process_string
\* consumes takes a defined transition.
C17_DFATableTotal ==
  automaton.cls = "DFA" =>
    /\ \A q \in automaton.states : \A c \in automaton.alphabet :
         <<q, c>> \in DOMAIN automaton.transitions
    /\ call.op = "process_string" =>
         \A k \in 1..call.applied :
           <<DFARun([automaton EXCEPT !.current_state = "q0"],
                    SubSeq(call.arg, 1, k - 1)).current_state,
             call.arg[k]>> \in DOMAIN automaton.transitions

C17_Witness ==
  /\ automaton.cls = "DFA"
  /\ call.op = "process_string"
  /\ call.arg = <<"b", "a", "a", "b", "b", "a">>
  /\ call.applied = 6

\* C18: after process_string of a string over {a,b} the cursor encodes
\* the suffix: q1 exactly when the string ends with 'a', q2 exactly when
\* it ends with "ab", q0 otherwise (empty, "b", or ending with "bb").
C18_CursorEncodesSuffix ==
  (call.op = "process_string" /\ OverAlphabet(call.arg)) =>
    LET s == call.arg
        n == Len(call.arg)
    IN  /\ automaton.current_state = "q1" <=> (n >= 1 /\ s[n] = "a")
        /\ automaton.current_state = "q2" <=> EndsWithAB(s)
        /\ automaton.current_state = "q0" <=>
             (n = 0 \/ s = <<"b">> \/ (n >= 2 /\ s[n - 1] = "b" /\ s[n] = "b"))

C18_Witness ==
  /\ call.op = "process_string"
  /\ call.arg = <<"a", "b", "a", "a", "b", "b">>
  /\ automaton.current_state = "q0"

\* C19: no single WeatherAutomaton transition moves the cursor between
\* Sunny and Rainy: Rainy is entered only from Cloudy on Humidity and left
\* only to Cloudy on HighPressure, Sunny is left only to Cloudy on
\* LowPressure and entered only from Cloudy on HighPressure.
C19_SunnyRainyOnlyViaCloudy ==
  (automaton.cls = "WeatherAutomaton" /\ call.op = "transition"
     /\ call.pre # automaton.current_state) =>
    /\ automaton.current_state = RAINY => (call.pre = CLOUDY /\ call.arg = HUMIDITY)
    /\ call.pre = RAINY => (automaton.current_state = CLOUDY /\ call.arg = HIGH_PRESSURE)
    /\ call.pre = SUNNY => (automaton.current_state = CLOUDY /\ call.arg = LOW_PRESSURE)
    /\ automaton.current_state = SUNNY => (call.pre = CLOUDY /\ call.arg = HIGH_PRESSURE)
    /\ {call.pre, automaton.current_state} # {SUNNY, RAINY}

C19_Witness ==
  /\ automaton.cls = "WeatherAutomaton"
  /\ call.op = "transition"
  /\ hist = <<LOW_PRESSURE, HUMIDITY, HIGH_PRESSURE>>
  /\ call.pre = RAINY
  /\ call.arg = HIGH_PRESSURE
  /\ automaton.current_state = CLOUDY
  /\ call.ret = CLOUDY

\* the cursor the model records is the one the run of calls produces
HistMatchesRun ==
  automaton.cls = "WeatherAutomaton" => automaton = WeatherRun(WeatherAutomaton_init, hist)

====
